---- MODULE Spec2Model ----
(***************************************************************************)
(* State-machine model of src/src/App.jsx: the location finder component,  *)
(* its recent-locations history, the localStorage key 'locationHistory',   *)
(* the place_changed listener and the device-locate callbacks.             *)
(*                                                                         *)
(* Scheduling: a handler together with the render it causes is one step.   *)
(* The persist effect (useEffect on [history]) is its own step; React runs *)
(* the effects of a render before it handles the next update, so handlers  *)
(* wait for a pending effect.  A page reload may happen at any time.       *)
(***************************************************************************)
EXTENDS Integers, Sequences, FiniteSets, TLC

VARIABLES
    location,       \* useState(null): the current selection
    error,          \* useState(""): the message shown to the user
    loading,        \* useState(false): the locating flag
    history,        \* useState([]): the array held by `history`
    historyType,    \* JavaScript type of the value held by `history`
    showHistory,    \* useState(false): history panel visibility
    storage,        \* localStorage item 'locationHistory'
    effectPending,  \* the persist effect of the last render has not run yet
    listening,      \* the place_changed listener is attached
    requests,       \* outstanding getCurrentPosition requests of this page
    console,        \* messages written with console.error by this page
    crashed,        \* an uncaught TypeError unmounted the component
    now,            \* the wall clock read by new Date()
    geolocation     \* navigator.geolocation exists in this browser

vars == <<location, error, loading, history, historyType, showHistory, storage,
          effectPending, listening, requests, console, crashed, now, geolocation>>

----------------------------------------------------------------------------
(* Bounds of the model *)

\* the clock takes the instants 0..MaxClock
MaxClock == 1
\* cap on the requests the model lets be outstanding at once
MaxRequests == 2

(* Program constants *)

\* .slice(0, 5)
HistoryLimit == 5

----------------------------------------------------------------------------
(* Values *)

Null == [null |-> TRUE]

UnknownLocation == "Unknown location"
NoDetailsMessage == "No details available for this place"
NotSupportedMessage == "Geolocation is not supported by your browser."
ParseFailureLog == "Failed to parse location history"
GeocodeFailureLog == "Reverse geocoding failed:"
FromSearch == [str |-> "From search"]

\* new Date().toISOString() at instant t
IsoInstants == << "2025-01-01T00:00:00.000Z", "2025-01-01T00:00:00.001Z",
                  "2025-01-01T00:00:00.002Z", "2025-01-01T00:00:00.003Z",
                  "2025-01-01T00:00:00.004Z", "2025-01-01T00:00:00.005Z" >>
toISOString(t) == IsoInstants[t + 1]

\* what autocomplete.getPlace() can return; "" stands for an absent field
Places ==
    { [geometry |-> TRUE, formatted_address |-> "New Delhi, Delhi, India",
       name |-> "New Delhi", lat |-> 28, lng |-> 77],
      [geometry |-> TRUE, formatted_address |-> "",
       name |-> "Agra", lat |-> 27, lng |-> 78],
      [geometry |-> FALSE, formatted_address |-> "",
       name |-> "agr", lat |-> 0, lng |-> 0] }

\* position.coords delivered by the device
Positions == { [latitude |-> 29, longitude |-> 76, accuracy |-> 20] }
NoCoords == [latitude |-> 0, longitude |-> 0, accuracy |-> 0]

\* err.message of a GeolocationPositionError
GeoErrors == { "User denied Geolocation", "Timeout expired", "Position unavailable" }

\* outcomes of fetch(...) and response.json(): transport says whether fetch
\* resolved, body whether the body parsed as JSON, shape whether the parsed
\* value has a results array
Responses ==
    { [transport |-> "ok", body |-> "json", shape |-> "results", status |-> "OK",
       results |-> << "New Delhi, Delhi, India", "Delhi, India" >>],
      [transport |-> "ok", body |-> "json", shape |-> "results", status |-> "OK",
       results |-> << >>],
      [transport |-> "ok", body |-> "json", shape |-> "results", status |-> "ZERO_RESULTS",
       results |-> << >>],
      [transport |-> "ok", body |-> "json", shape |-> "results", status |-> "REQUEST_DENIED",
       results |-> << >>],
      [transport |-> "ok", body |-> "json", shape |-> "noResults", status |-> "OK",
       results |-> << >>],
      [transport |-> "ok", body |-> "notJson", shape |-> "noResults", status |-> "",
       results |-> << >>],
      [transport |-> "failed", body |-> "notJson", shape |-> "noResults", status |-> "",
       results |-> << >>] }

\* a list an earlier session of the program wrote: five searched places
SeedNames == << "Mumbai, Maharashtra, India", "Pune, Maharashtra, India",
                "Jaipur, Rajasthan, India", "Kochi, Kerala, India",
                "Patna, Bihar, India" >>
SeedHistory ==
    [i \in 1..HistoryLimit |->
        [name |-> SeedNames[i], lat |-> 10 + i, lng |-> 70 + i,
         accuracy |-> FromSearch, timestamp |-> toISOString(0)]]

----------------------------------------------------------------------------
(* JSON.stringify and JSON.parse of the history *)

NoItem == [missing |-> TRUE]

\* JSON.stringify(loc): the members in insertion order
StringifyLocation(loc) ==
    << <<"name", [str |-> loc.name]>>,
       <<"lat", [num |-> loc.lat]>>,
       <<"lng", [num |-> loc.lng]>>,
       <<"accuracy", loc.accuracy>>,
       <<"timestamp", [str |-> loc.timestamp]>> >>

\* JSON.stringify(history)
Stringify(h) == [jsonArray |-> [i \in 1..Len(h) |-> StringifyLocation(h[i])]]

Member(obj, key) == (CHOOSE m \in { obj[i] : i \in 1..Len(obj) } : m[1] = key)[2]

ParseLocation(obj) ==
    [name |-> Member(obj, "name").str,
     lat |-> Member(obj, "lat").num,
     lng |-> Member(obj, "lng").num,
     accuracy |-> Member(obj, "accuracy"),
     timestamp |-> Member(obj, "timestamp").str]

\* JSON.parse of a stored array of locations
ParseArray(text) == [i \in 1..Len(text.jsonArray) |-> ParseLocation(text.jsonArray[i])]

----------------------------------------------------------------------------
(* Pure functions of the component *)

Min(a, b) == IF a < b THEN a ELSE b

\* addToHistory without .slice(0, 5)
addToHistoryNoLimit(prev, loc) ==
    <<loc>> \o SelectSeq(prev, LAMBDA item : item.name # loc.name)

\* addToHistory without the filter on the name
addToHistoryNoDedup(prev, loc) ==
    LET joined == <<loc>> \o prev
    IN  SubSeq(joined, 1, Min(HistoryLimit, Len(joined)))

\* addToHistory moving an entry of the same name to the front instead of
\* replacing it
addToHistoryKeepStale(prev, loc) ==
    LET same == SelectSeq(prev, LAMBDA item : item.name = loc.name)
        filtered == SelectSeq(prev, LAMBDA item : item.name # loc.name)
        joined == (IF Len(same) > 0 THEN <<same[1]>> ELSE <<loc>>) \o filtered
    IN  SubSeq(joined, 1, Min(HistoryLimit, Len(joined)))

\* addToHistory with .slice(-5): keeps the last five
addToHistoryKeepLast(prev, loc) ==
    LET filtered == SelectSeq(prev, LAMBDA item : item.name # loc.name)
        joined == <<loc>> \o filtered
    IN  SubSeq(joined, Len(joined) - Min(HistoryLimit, Len(joined)) + 1, Len(joined))

\* [loc, ...prev.filter(item => item.name !== loc.name)].slice(0, 5)
addToHistory(prev, loc) ==
    LET filtered == SelectSeq(prev, LAMBDA item : item.name # loc.name)
        joined == <<loc>> \o filtered
    IN  SubSeq(joined, 1, Min(HistoryLimit, Len(joined)))

\* getAddressFromLatLng without the try/catch: a failure rejects the promise
getAddressFromLatLngNoCatch(resp) ==
    IF resp.transport = "failed" \/ resp.body = "notJson"
       \/ (resp.status = "OK" /\ resp.shape = "noResults")
    THEN [address |-> UnknownLocation, logs |-> {}, threw |-> TRUE]
    ELSE IF resp.status = "OK" /\ Len(resp.results) > 0
         THEN [address |-> resp.results[1], logs |-> {}, threw |-> FALSE]
         ELSE [address |-> UnknownLocation, logs |-> {}, threw |-> FALSE]

\* the awaited result of getAddressFromLatLng for one outcome of the fetch:
\* the returned address, what the catch block logged, and whether the
\* promise rejected
getAddressFromLatLng(resp) ==
    IF resp.transport = "failed" \/ resp.body = "notJson"
    THEN [address |-> UnknownLocation, logs |-> {GeocodeFailureLog}, threw |-> FALSE]
    ELSE IF resp.status = "OK"
         THEN IF resp.shape = "noResults"   \* data.results.length throws a TypeError
              THEN [address |-> UnknownLocation, logs |-> {GeocodeFailureLog}, threw |-> FALSE]
              ELSE IF Len(resp.results) > 0
                   THEN [address |-> resp.results[1], logs |-> {}, threw |-> FALSE]
                   ELSE [address |-> UnknownLocation, logs |-> {}, threw |-> FALSE]
         ELSE [address |-> UnknownLocation, logs |-> {}, threw |-> FALSE]

\* the Location built by the place_changed listener
SearchLocation(place, t) ==
    [name |-> IF place.formatted_address # "" THEN place.formatted_address ELSE place.name,
     lat |-> place.lat,
     lng |-> place.lng,
     accuracy |-> FromSearch,
     timestamp |-> toISOString(t)]

\* the Location built by the success callback of getCurrentPosition
DeviceLocation(address, coords, t) ==
    [name |-> address,
     lat |-> coords.latitude,
     lng |-> coords.longitude,
     accuracy |-> [num |-> coords.accuracy],
     timestamp |-> toISOString(t)]

\* the error callback showing err.message alone
DeviceErrorMessageBare(message) == message

\* the message set by the error callback of getCurrentPosition
DeviceErrorMessage(message) == "Error: " \o message

\* the kind of text held under the storage key
StoredKind(stored) ==
    CHOOSE k \in {"missing", "garbage", "jsonArray", "jsonNull", "jsonObject", "jsonString"} :
        k \in DOMAIN stored

\* the string a stored JSON string literal parses to
JunkString == "abc"

\* the load block of the mount effect: the value and type `history` gets,
\* whether setHistory was called, and what was logged
LoadHistory(stored) ==
    LET kind == StoredKind(stored)
    IN  CASE kind = "missing" ->
               [value |-> << >>, type |-> "array", set |-> FALSE, logs |-> {}]
          [] kind = "garbage" ->
               [value |-> << >>, type |-> "array", set |-> FALSE, logs |-> {ParseFailureLog}]
          [] kind = "jsonArray" ->
               [value |-> ParseArray(stored), type |-> "array", set |-> TRUE, logs |-> {}]
          [] kind = "jsonNull" ->
               [value |-> << >>, type |-> "null", set |-> TRUE, logs |-> {}]
          [] kind = "jsonObject" ->
               [value |-> << >>, type |-> "object", set |-> TRUE, logs |-> {}]
          [] kind = "jsonString" ->
               [value |-> << >>, type |-> "string", set |-> TRUE, logs |-> {}]

\* the persist effect without the history.length > 0 guard
PersistedStorageAlways(h, stored) == Stringify(h)

\* the persist effect with the guard history.length > 1
PersistedStorageOffByOne(h, stored) ==
    IF Len(h) > 1 THEN Stringify(h) ELSE stored

\* the persist effect run on an array: what the storage key holds afterwards
PersistedStorage(h, stored) ==
    IF Len(h) > 0 THEN Stringify(h) ELSE stored

RemoveAt(s, i) == SubSeq(s, 1, i - 1) \o SubSeq(s, i + 1, Len(s))

----------------------------------------------------------------------------
(* Initial states: a freshly loaded page over a storage an earlier session *)
(* of the program left behind                                             *)

WrittenStores == { NoItem, Stringify(SeedHistory) }

\* contents the program never writes
ForeignStores ==
    { [garbage |-> "{oops"], [jsonNull |-> TRUE], [jsonObject |-> << >>],
      [jsonString |-> JunkString] }

Mounted(stored) ==
    LET loaded == LoadHistory(stored)
    IN  /\ location = Null
        /\ error = ""
        /\ loading = FALSE
        /\ history = loaded.value
        /\ historyType = loaded.type
        /\ showHistory = FALSE
        /\ effectPending = loaded.set
        /\ listening = FALSE
        /\ requests = << >>
        /\ console = loaded.logs
        /\ crashed = FALSE

InitOver(stores) ==
    \E s \in stores, g \in BOOLEAN :
        /\ storage = s
        /\ geolocation = g
        /\ now = 0
        /\ Mounted(s)

Init == InitOver(WrittenStores)

InitAny == InitOver(WrittenStores \cup ForeignStores)

----------------------------------------------------------------------------
(* Steps *)

\* the page is closed and opened again: the state is rebuilt, the mount
\* effect loads the stored list, and the persist effect runs a first time
\* over the initial empty array before the loaded list is rendered
Reload ==
    LET loaded == LoadHistory(storage)
    IN  /\ location' = Null
        /\ error' = ""
        /\ loading' = FALSE
        /\ history' = loaded.value
        /\ historyType' = loaded.type
        /\ showHistory' = FALSE
        /\ effectPending' = loaded.set
        /\ listening' = FALSE
        /\ requests' = << >>
        /\ console' = loaded.logs
        /\ crashed' = FALSE
        /\ storage' = PersistedStorage(<< >>, storage)
        /\ UNCHANGED <<now, geolocation>>

\* time passes
Tick ==
    /\ now < MaxClock
    /\ now' = now + 1
    /\ UNCHANGED <<location, error, loading, history, historyType, showHistory, storage,
                   effectPending, listening, requests, console, crashed, geolocation>>

\* loadGoogleMapsScript() resolves and the place_changed listener is attached
ScriptLoaded ==
    /\ ~listening
    /\ ~crashed
    /\ listening' = TRUE
    /\ UNCHANGED <<location, error, loading, history, historyType, showHistory, storage,
                   effectPending, requests, console, crashed, now, geolocation>>

\* useEffect(..., [history]): save the history whenever it changed
PersistEffect ==
    /\ effectPending
    /\ ~crashed
    /\ effectPending' = FALSE
    /\ CASE historyType = "array" ->
              /\ storage' = PersistedStorage(history, storage)
              /\ crashed' = crashed
         [] historyType = "null" ->        \* null.length throws
              /\ storage' = storage
              /\ crashed' = TRUE
         [] historyType = "object" ->      \* undefined > 0 is false
              /\ storage' = storage
              /\ crashed' = crashed
         [] historyType = "string" ->
              /\ storage' = [jsonString |-> JunkString]
              /\ crashed' = crashed
    /\ UNCHANGED <<location, error, loading, history, historyType, showHistory,
                   listening, requests, console, now, geolocation>>

\* onClick of the search input: setShowHistory(true), then the render
InputClick ==
    /\ ~crashed
    /\ ~effectPending
    /\ showHistory' = TRUE
    /\ crashed' = (historyType = "string")   \* history.map is not a function
    /\ UNCHANGED <<location, error, loading, history, historyType, storage,
                   effectPending, listening, requests, console, now, geolocation>>

\* the place_changed listener without setError("") after a valid selection
PlaceChangedKeepsError(place) ==
    /\ listening
    /\ ~crashed
    /\ ~effectPending
    /\ IF ~place.geometry
       THEN /\ error' = NoDetailsMessage
            /\ UNCHANGED <<location, history, effectPending, crashed>>
       ELSE LET newLocation == SearchLocation(place, now)
            IN  IF historyType = "array"
                THEN /\ location' = newLocation
                     /\ history' = addToHistory(history, newLocation)
                     /\ error' = error
                     /\ effectPending' = TRUE
                     /\ crashed' = crashed
                ELSE /\ crashed' = TRUE
                     /\ UNCHANGED <<location, history, error, effectPending>>
    /\ UNCHANGED <<loading, historyType, showHistory, storage, listening, requests,
                   console, now, geolocation>>

\* the place_changed listener clearing the selection when the place has no
\* geometry
PlaceChangedNoGeometryClears(place) ==
    /\ listening
    /\ ~crashed
    /\ ~effectPending
    /\ IF ~place.geometry
       THEN /\ error' = NoDetailsMessage
            /\ location' = Null
            /\ UNCHANGED <<history, effectPending, crashed>>
       ELSE LET newLocation == SearchLocation(place, now)
            IN  IF historyType = "array"
                THEN /\ location' = newLocation
                     /\ history' = addToHistory(history, newLocation)
                     /\ error' = ""
                     /\ effectPending' = TRUE
                     /\ crashed' = crashed
                ELSE /\ crashed' = TRUE
                     /\ UNCHANGED <<location, history, error, effectPending>>
    /\ UNCHANGED <<loading, historyType, showHistory, storage, listening, requests,
                   console, now, geolocation>>

\* the place_changed listener superseding an outstanding device locate
PlaceChangedCancels(place) ==
    /\ listening
    /\ ~crashed
    /\ ~effectPending
    /\ IF ~place.geometry
       THEN /\ error' = NoDetailsMessage
            /\ UNCHANGED <<location, history, effectPending, crashed, loading, requests>>
       ELSE LET newLocation == SearchLocation(place, now)
            IN  IF historyType = "array"
                THEN /\ location' = newLocation
                     /\ history' = addToHistory(history, newLocation)
                     /\ error' = ""
                     /\ effectPending' = TRUE
                     /\ crashed' = crashed
                     /\ loading' = FALSE
                     /\ requests' = << >>
                ELSE /\ crashed' = TRUE
                     /\ UNCHANGED <<location, history, error, effectPending, loading, requests>>
    /\ UNCHANGED <<historyType, showHistory, storage, listening, console, now, geolocation>>

\* the place_changed listener
PlaceChanged(place) ==
    /\ listening
    /\ ~crashed
    /\ ~effectPending
    /\ IF ~place.geometry
       THEN /\ error' = NoDetailsMessage
            /\ UNCHANGED <<location, history, effectPending, crashed>>
       ELSE LET newLocation == SearchLocation(place, now)
            IN  IF historyType = "array"
                THEN /\ location' = newLocation
                     /\ history' = addToHistory(history, newLocation)
                     /\ error' = ""
                     /\ effectPending' = TRUE
                     /\ crashed' = crashed
                ELSE /\ crashed' = TRUE      \* prev.filter throws in the updater
                     /\ UNCHANGED <<location, history, error, effectPending>>
    /\ UNCHANGED <<loading, historyType, showHistory, storage, listening, requests,
                   console, now, geolocation>>

\* getCurrentLocation without the navigator.geolocation check
getCurrentLocationNoCheck ==
    /\ ~crashed
    /\ ~effectPending
    /\ ~loading
    /\ Len(requests) < MaxRequests
    /\ loading' = TRUE
    /\ error' = ""
    /\ requests' = Append(requests, [phase |-> "position", coords |-> NoCoords])
    /\ UNCHANGED <<location, history, historyType, showHistory, storage, effectPending,
                   listening, console, crashed, now, geolocation>>

\* the Get My Location button without disabled={loading}
getCurrentLocationNotDisabled ==
    /\ ~crashed
    /\ ~effectPending
    /\ Len(requests) < MaxRequests
    /\ IF ~geolocation
       THEN /\ error' = NotSupportedMessage
            /\ UNCHANGED <<loading, requests>>
       ELSE /\ loading' = TRUE
            /\ error' = ""
            /\ requests' = Append(requests, [phase |-> "position", coords |-> NoCoords])
    /\ UNCHANGED <<location, history, historyType, showHistory, storage, effectPending,
                   listening, console, crashed, now, geolocation>>

\* onClick of the Get My Location button (disabled while loading)
getCurrentLocation ==
    /\ ~crashed
    /\ ~effectPending
    /\ ~loading
    /\ Len(requests) < MaxRequests
    /\ IF ~geolocation
       THEN /\ error' = NotSupportedMessage
            /\ UNCHANGED <<loading, requests>>
       ELSE /\ loading' = TRUE
            /\ error' = ""
            /\ requests' = Append(requests, [phase |-> "position", coords |-> NoCoords])
    /\ UNCHANGED <<location, history, historyType, showHistory, storage, effectPending,
                   listening, console, crashed, now, geolocation>>

\* the device answers: the success callback starts and awaits the address
PositionSuccess(i, pos) ==
    /\ i \in 1..Len(requests)
    /\ requests[i].phase = "position"
    /\ requests' = [requests EXCEPT ![i] = [phase |-> "address", coords |-> pos]]
    /\ UNCHANGED <<location, error, loading, history, historyType, showHistory, storage,
                   effectPending, listening, console, crashed, now, geolocation>>

\* the success callback without setLoading(false)
AddressResolvedKeepsLoading(i, resp) ==
    /\ i \in 1..Len(requests)
    /\ requests[i].phase = "address"
    /\ ~effectPending
    /\ LET resolved == getAddressFromLatLng(resp)
           newLocation == DeviceLocation(resolved.address, requests[i].coords, now)
       IN  /\ console' = console \cup resolved.logs
           /\ IF crashed \/ resolved.threw
              THEN UNCHANGED <<location, history, effectPending, crashed>>
              ELSE IF historyType = "array"
                   THEN /\ location' = newLocation
                        /\ history' = addToHistory(history, newLocation)
                        /\ effectPending' = TRUE
                        /\ crashed' = crashed
                   ELSE /\ crashed' = TRUE
                        /\ UNCHANGED <<location, history, effectPending>>
    /\ requests' = RemoveAt(requests, i)
    /\ UNCHANGED <<error, loading, historyType, showHistory, storage, listening, now,
                   geolocation>>

\* the address arrives: the rest of the success callback
AddressResolved(i, resp) ==
    /\ i \in 1..Len(requests)
    /\ requests[i].phase = "address"
    /\ ~effectPending
    /\ LET resolved == getAddressFromLatLng(resp)
           newLocation == DeviceLocation(resolved.address, requests[i].coords, now)
       IN  /\ console' = console \cup resolved.logs
           /\ IF crashed \/ resolved.threw
              THEN UNCHANGED <<location, history, loading, effectPending, crashed>>
              ELSE IF historyType = "array"
                   THEN /\ location' = newLocation
                        /\ history' = addToHistory(history, newLocation)
                        /\ loading' = FALSE
                        /\ effectPending' = TRUE
                        /\ crashed' = crashed
                   ELSE /\ crashed' = TRUE   \* prev.filter throws in the updater
                        /\ UNCHANGED <<location, history, loading, effectPending>>
    /\ requests' = RemoveAt(requests, i)
    /\ UNCHANGED <<error, historyType, showHistory, storage, listening, now, geolocation>>

\* the error callback without setLocation(null)
PositionErrorKeepsSelection(i, message) ==
    /\ i \in 1..Len(requests)
    /\ requests[i].phase = "position"
    /\ ~effectPending
    /\ IF crashed
       THEN UNCHANGED <<error, loading>>
       ELSE /\ error' = DeviceErrorMessage(message)
            /\ loading' = FALSE
    /\ requests' = RemoveAt(requests, i)
    /\ UNCHANGED <<location, history, historyType, showHistory, storage, effectPending,
                   listening, console, crashed, now, geolocation>>

\* the device fails: the error callback
PositionError(i, message) ==
    /\ i \in 1..Len(requests)
    /\ requests[i].phase = "position"
    /\ ~effectPending
    /\ IF crashed
       THEN UNCHANGED <<error, location, loading>>
       ELSE /\ error' = DeviceErrorMessage(message)
            /\ location' = Null
            /\ loading' = FALSE
    /\ requests' = RemoveAt(requests, i)
    /\ UNCHANGED <<history, historyType, showHistory, storage, effectPending, listening,
                   console, crashed, now, geolocation>>

\* selectFromHistory giving the selected entry a fresh timestamp
selectFromHistoryRestamps(i) ==
    /\ ~crashed
    /\ ~effectPending
    /\ showHistory
    /\ historyType = "array"
    /\ i \in 1..Len(history)
    /\ location' = [history[i] EXCEPT !.timestamp = toISOString(now)]
    /\ showHistory' = FALSE
    /\ UNCHANGED <<error, loading, history, historyType, storage, effectPending,
                   listening, requests, console, crashed, now, geolocation>>

\* onClick of an entry of the history panel
selectFromHistory(i) ==
    /\ ~crashed
    /\ ~effectPending
    /\ showHistory
    /\ historyType = "array"
    /\ i \in 1..Len(history)
    /\ location' = history[i]
    /\ showHistory' = FALSE
    /\ UNCHANGED <<error, loading, history, historyType, storage, effectPending,
                   listening, requests, console, crashed, now, geolocation>>

\* clearHistory without localStorage.removeItem
clearHistoryKeepsKey ==
    /\ ~crashed
    /\ ~effectPending
    /\ showHistory
    /\ historyType = "array"
    /\ Len(history) > 0
    /\ history' = << >>
    /\ showHistory' = FALSE
    /\ effectPending' = TRUE
    /\ UNCHANGED <<location, error, loading, historyType, storage, listening, requests,
                   console, crashed, now, geolocation>>

\* clearHistory also resetting the current selection
clearHistoryResetsSelection ==
    /\ ~crashed
    /\ ~effectPending
    /\ showHistory
    /\ historyType = "array"
    /\ Len(history) > 0
    /\ history' = << >>
    /\ storage' = NoItem
    /\ showHistory' = FALSE
    /\ effectPending' = TRUE
    /\ location' = Null
    /\ UNCHANGED <<error, loading, historyType, listening, requests,
                   console, crashed, now, geolocation>>

\* onClick of Clear All in the history panel
clearHistory ==
    /\ ~crashed
    /\ ~effectPending
    /\ showHistory
    /\ historyType = "array"
    /\ Len(history) > 0
    /\ history' = << >>
    /\ storage' = NoItem
    /\ showHistory' = FALSE
    /\ effectPending' = TRUE
    /\ UNCHANGED <<location, error, loading, historyType, listening, requests,
                   console, crashed, now, geolocation>>

Next ==
    \/ Reload
    \/ Tick
    \/ ScriptLoaded
    \/ PersistEffect
    \/ InputClick
    \/ \E place \in Places : PlaceChanged(place)
    \/ getCurrentLocation
    \/ \E i \in 1..MaxRequests, pos \in Positions : PositionSuccess(i, pos)
    \/ \E i \in 1..MaxRequests, resp \in Responses : AddressResolved(i, resp)
    \/ \E i \in 1..MaxRequests, message \in GeoErrors : PositionError(i, message)
    \/ \E i \in 1..HistoryLimit : selectFromHistory(i)
    \/ clearHistory

\* sessions over a storage the program wrote
Spec == Init /\ [][Next]_vars

\* sessions over any storage content
SpecAny == InitAny /\ [][Next]_vars

\* the device answers every request (getCurrentPosition has a timeout), the
\* fetch of the address settles, and a scheduled effect or callback runs
DeviceAnswers ==
    \/ \E i \in 1..MaxRequests, pos \in Positions : PositionSuccess(i, pos)
    \/ \E i \in 1..MaxRequests, message \in GeoErrors : PositionError(i, message)

AddressSettles == \E i \in 1..MaxRequests, resp \in Responses : AddressResolved(i, resp)

Fairness ==
    /\ WF_vars(PersistEffect)
    /\ SF_vars(DeviceAnswers)
    /\ SF_vars(AddressSettles)

FairSpec == Spec /\ Fairness

----------------------------------------------------------------------------
(* Vocabulary of the properties *)

NameIn(h, name) == \E i \in 1..Len(h) : h[i].name = name

CountName(h, name) == Cardinality({ i \in 1..Len(h) : h[i].name = name })

Without(h, name) == SelectSeq(h, LAMBDA item : item.name # name)

NamesOf(h) == [i \in 1..Len(h) |-> h[i].name]

\* the list held under the storage key, empty when the key holds no list
StoredList == IF StoredKind(storage) = "jsonArray" THEN ParseArray(storage) ELSE << >>

\* a step in which a handler made a Location and passed it to addToHistory;
\* the Location is the new current selection location'
AddedStep ==
    \/ \E place \in Places : place.geometry /\ PlaceChanged(place)
    \/ \E i \in 1..MaxRequests, resp \in Responses : AddressResolved(i, resp)

DelhiAddress == "New Delhi, Delhi, India"

----------------------------------------------------------------------------
(* The recent-locations store *)

\* C1: in every reachable state the in-memory history holds at most 5
\* entries, and so does the list held in durable storage.
C1_HistoryAtMostFive ==
    /\ Len(history) <= 5
    /\ StoredKind(storage) = "jsonArray" => Len(storage.jsonArray) <= 5

\* a full list to which a sixth name was added, in memory and in storage
C1_Witness ==
    /\ Len(history) = 5
    /\ history[1].name = UnknownLocation
    /\ history[2].name = SeedNames[1]
    /\ ~effectPending
    /\ StoredKind(storage) = "jsonArray"
    /\ Len(storage.jsonArray) = 5

\* C2: in every reachable state no two entries of the history share a name.
C2_NamesUnique ==
    \A i, j \in 1..Len(history) : i # j => history[i].name # history[j].name

\* a device result was added under the name of an entry already listed: the
\* stored list, not yet rewritten, still holds the searched entry
C2_Witness ==
    /\ effectPending
    /\ Len(history) >= 2
    /\ history[1].name = DelhiAddress
    /\ history[1].accuracy = [num |-> 20]
    /\ \E k \in 1..Len(StoredList) :
          StoredList[k].name = DelhiAddress /\ StoredList[k].accuracy = FromSearch

\* C3: when a Location whose name is already listed is added, the new
\* history has exactly one entry of that name, first, with the fields of the
\* added Location, and the other entries keep their relative order.
C3_DuplicateMovesToFront ==
    [][ (AddedStep /\ NameIn(history, location'.name)) =>
            /\ Len(history') > 0
            /\ history'[1] = location'
            /\ CountName(history', location'.name) = 1
            /\ Tail(history') = Without(history, location'.name)
      ]_vars

\* add A, add B, add C, add A: the stored list is still [C, B, A] and the
\* history is [A, C, B], A with the later timestamp
C3_Witness ==
    /\ effectPending
    /\ NamesOf(StoredList) = << UnknownLocation, "Agra", DelhiAddress >>
    /\ NamesOf(history) = << DelhiAddress, UnknownLocation, "Agra" >>
    /\ StoredList[3].timestamp = toISOString(0)
    /\ history[1].timestamp = toISOString(1)
    /\ location = history[1]

\* C4: when the history holds 5 entries and a Location with a new name is
\* added, the result is the new entry followed by the previous first four
\* entries in their order; the previous fifth entry is gone.
C4_OldestEvicted ==
    [][ (AddedStep /\ Len(history) = 5 /\ ~NameIn(history, location'.name)) =>
            history' = << location' >> \o SubSeq(history, 1, 4)
      ]_vars

\* the five stored entries, a sixth name added in front, the fifth evicted
C4_Witness ==
    /\ effectPending
    /\ Len(StoredList) = 5
    /\ Len(history) = 5
    /\ ~NameIn(StoredList, history[1].name)
    /\ SubSeq(history, 2, 5) = SubSeq(StoredList, 1, 4)
    /\ ~NameIn(history, StoredList[5].name)

----------------------------------------------------------------------------
(* Persistence *)

\* C5: once the persist effect has run, a reload yields a history equal,
\* entry for entry and in order, to the history before it; and the first
\* effect run of a page, over the empty initial array, leaves the stored
\* list as it is.
C5_ReloadRoundTrip ==
    [][ Reload =>
            /\ ~effectPending => history' = history
            /\ storage' = storage
      ]_vars

\* a freshly reloaded page showing a list that earlier adds produced after
\* the stored list was cleared: a device entry in front of a searched one
C5_Witness ==
    /\ effectPending
    /\ location = Null
    /\ NamesOf(history) = << UnknownLocation, "Agra" >>
    /\ history[1].accuracy = [num |-> 20]
    /\ history[2].accuracy = FromSearch
    /\ history[1].timestamp = toISOString(1)
    /\ history[2].timestamp = toISOString(0)
    /\ storage = Stringify(history)

\* C6: clearHistory empties the history and removes the storage key; the
\* effect run over the emptied history does not write the key again, and a
\* reload of a page whose history is empty yields an empty history.
C6_ClearRemovesKey ==
    [][ /\ clearHistory => (history' = << >> /\ storage' = NoItem)
        /\ (PersistEffect /\ history = << >>) => storage' = NoItem
        /\ (Reload /\ history = << >>) => history' = << >>
      ]_vars

\* a session that listed entries, cleared them, and whose effect has run
C6_Witness ==
    /\ location # Null
    /\ history = << >>
    /\ ~effectPending
    /\ ~showHistory
    /\ storage = NoItem

\* contents that are not a serialized list of Locations
Malformed(stored) == StoredKind(stored) \notin {"missing", "jsonArray"}

\* C7: with malformed content under the key the load only logs the error:
\* the history is an (empty) array until something is added and the
\* component keeps running.
C7_LoadNeverFails ==
    Malformed(storage) =>
        /\ ParseFailureLog \in console
        /\ historyType = "array"
        /\ history = << >> \/ effectPending
        /\ ~crashed

----------------------------------------------------------------------------
(* Device locate *)

\* the reverse-geocoding outcomes other than an OK status with a result
Degraded(resp) ==
    \/ resp.transport = "failed"
    \/ resp.body = "notJson"
    \/ resp.status # "OK"
    \/ resp.shape = "noResults"
    \/ Len(resp.results) = 0

\* C8: when the reverse geocoding gives a non-OK status, no result, or
\* fails, the success callback still completes: the Location named
\* "Unknown location" with the device's coordinates becomes the current
\* selection and the first history entry, and the error is left as it was.
C8_UnknownLocationRecorded ==
    [][ \A i \in 1..MaxRequests, resp \in Responses :
            (AddressResolved(i, resp) /\ Degraded(resp)) =>
                /\ location' # Null
                /\ location'.name = "Unknown location"
                /\ location'.lat = requests[i].coords.latitude
                /\ location'.lng = requests[i].coords.longitude
                /\ Len(history') > 0
                /\ history'[1] = location'
                /\ error' = error
                /\ ~loading'
                /\ ~crashed'
      ]_vars

\* a device result recorded under the sentinel after a logged failure
C8_Witness ==
    /\ GeocodeFailureLog \in console
    /\ location # Null
    /\ location.name = UnknownLocation
    /\ location.lat = 29
    /\ location.lng = 76
    /\ Len(history) > 0
    /\ history[1] = location
    /\ error = ""
    /\ ~loading

\* C9: when the device locate fails, the current selection is null, the
\* history and the storage are as before, an error is shown and the
\* locating flag is false.
C9_DeviceErrorClearsSelection ==
    [][ \A i \in 1..MaxRequests, message \in GeoErrors :
            PositionError(i, message) =>
                /\ location' = Null
                /\ history' = history
                /\ storage' = storage
                /\ error' # ""
                /\ ~loading'
      ]_vars

\* a failed locate in a session that had added an entry: the entry is still
\* listed and stored, the selection is gone
C9_Witness ==
    /\ location = Null
    /\ error = "Error: Timeout expired"
    /\ ~loading
    /\ requests = << >>
    /\ Len(history) = 1
    /\ history[1].timestamp = toISOString(1)
    /\ storage = Stringify(history)

\* C10 as claimed: after a permission failure the error shown equals the
\* reason text of the geolocation error.
C10_ErrorEqualsReason ==
    [][ \A i \in 1..MaxRequests :
            PositionError(i, "User denied Geolocation") => error' = "User denied Geolocation"
      ]_vars

\* C10 amended: after a device failure the error shown is "Error: " followed
\* by the reason text of the geolocation error.
C10_ErrorCarriesReason ==
    [][ \A i \in 1..MaxRequests, message \in GeoErrors :
            PositionError(i, message) =>
                /\ Len(error') = Len("Error: ") + Len(message)
                /\ SubSeq(error', 1, Len("Error: ")) = "Error: "
                /\ SubSeq(error', Len("Error: ") + 1, Len(error')) = message
      ]_vars

\* the message shown after a permission failure
C10_Witness ==
    /\ error = "Error: User denied Geolocation"
    /\ location = Null
    /\ ~loading

----------------------------------------------------------------------------
(* Frame of the locate failures *)

\* C11 as claimed: on a device failure and on an absent capability an error
\* is set and neither the current selection nor the history store changes;
\* with the capability absent no request is issued and loading stays false.
C11_FailureKeepsSelection ==
    [][ /\ \A i \in 1..MaxRequests, message \in GeoErrors :
              PositionError(i, message) =>
                  /\ error' # ""
                  /\ location' = location
                  /\ history' = history
                  /\ storage' = storage
        /\ (getCurrentLocation /\ ~geolocation) =>
              /\ error' = NotSupportedMessage
              /\ location' = location
              /\ history' = history
              /\ storage' = storage
              /\ requests' = requests
        /\ ~geolocation => (~loading' /\ requests' = << >>)
      ]_vars

\* C11 amended: a device failure sets an error and leaves the history store
\* untouched but sets the current selection to null; with the capability
\* absent the click sets the error at once, changes neither the selection
\* nor the history store, issues no request, and loading is never true.
C11_FailureFrame ==
    [][ /\ \A i \in 1..MaxRequests, message \in GeoErrors :
              PositionError(i, message) =>
                  /\ error' # ""
                  /\ location' = Null
                  /\ history' = history
                  /\ storage' = storage
        /\ (getCurrentLocation /\ ~geolocation) =>
              /\ error' = NotSupportedMessage
              /\ location' = location
              /\ history' = history
              /\ storage' = storage
              /\ requests' = requests
        /\ ~geolocation => (~loading' /\ requests' = << >>)
      ]_vars

\* a browser without geolocation: the click left the message, and the
\* selection and the list of an earlier search are still there
C11_Witness ==
    /\ ~geolocation
    /\ error = NotSupportedMessage
    /\ location # Null
    /\ Len(history) > 0
    /\ history[1] = location
    /\ ~loading
    /\ requests = << >>

\* C12: at most one device-locate request is outstanding, loading is true
\* exactly when one is, and the button cannot start another while loading.
C12_OneRequestOutstanding ==
    /\ Len(requests) <= 1
    /\ loading <=> Len(requests) = 1
    /\ loading => ~ENABLED getCurrentLocation

\* a request whose success callback is awaiting the address
C12_Witness ==
    /\ loading
    /\ Len(requests) = 1
    /\ requests[1].phase = "address"
    /\ requests[1].coords \in Positions
    /\ ~effectPending
    /\ ~crashed

----------------------------------------------------------------------------
(* User events *)

\* C13: a selection of a place with geometry, in any state, makes a Location
\* with the place's name and coordinates and accuracy "From search" the
\* current selection and the first history entry, clears the error, and
\* leaves the loading flag and the outstanding requests as they are.
C13_PlaceSelected ==
    [][ \A place \in Places :
            (place.geometry /\ PlaceChanged(place)) =>
                /\ location' # Null
                /\ location'.accuracy = [str |-> "From search"]
                /\ location'.lat = place.lat
                /\ location'.lng = place.lng
                /\ location'.name \in {place.formatted_address, place.name}
                /\ location'.timestamp = toISOString(now)
                /\ Len(history') > 0
                /\ history'[1] = location'
                /\ Tail(history') = SubSeq(Without(history, location'.name), 1,
                                           Len(history') - 1)
                /\ error' = ""
                /\ loading' = loading
                /\ requests' = requests
      ]_vars

\* a place selected while a device locate is outstanding
C13_Witness ==
    /\ loading
    /\ Len(requests) = 1
    /\ effectPending
    /\ location # Null
    /\ location.accuracy = FromSearch
    /\ location.name = "Agra"
    /\ Len(history) > 0
    /\ history[1] = location
    /\ error = ""

\* C14: selecting a suggestion without geometry sets the error and changes
\* nothing else.
C14_NoGeometryOnlySetsError ==
    [][ \A place \in Places :
            (~place.geometry /\ PlaceChanged(place)) =>
                /\ error' = "No details available for this place"
                /\ UNCHANGED <<location, history, historyType, storage, loading,
                               showHistory, requests, effectPending, crashed>>
      ]_vars

\* the message shown over a selection, a list, an open panel and a locate
\* in flight
C14_Witness ==
    /\ error = NoDetailsMessage
    /\ location # Null
    /\ Len(history) > 0
    /\ storage = Stringify(history)
    /\ showHistory
    /\ loading

\* C15: selecting a history entry makes that entry, unchanged, the current
\* selection and hides the panel; the history, the storage, the loading flag
\* and the outstanding requests stay as they are.
C15_HistorySelectedVerbatim ==
    [][ \A i \in 1..5 :
            selectFromHistory(i) =>
                /\ location' = history[i]
                /\ location'.timestamp = history[i].timestamp
                /\ ~showHistory'
                /\ UNCHANGED <<history, storage, loading, requests, error>>
      ]_vars

\* an older entry, not the first, selected at a later instant: it keeps its
\* timestamp and its place in the list
C15_Witness ==
    /\ now = 1
    /\ Len(history) >= 2
    /\ location = history[2]
    /\ location.timestamp = toISOString(0)
    /\ history[1].timestamp = toISOString(1)
    /\ ~showHistory
    /\ storage = Stringify(history)

\* C16: clearing the history empties the store and hides the panel and
\* leaves the current selection, the error and the loading flag unchanged.
C16_ClearKeepsSelection ==
    [][ clearHistory =>
            /\ history' = << >>
            /\ storage' = NoItem
            /\ ~showHistory'
            /\ UNCHANGED <<location, error, loading, requests>>
      ]_vars

\* right after a clear: the selection and the error shown before it remain
C16_Witness ==
    /\ history = << >>
    /\ storage = NoItem
    /\ effectPending
    /\ ~showHistory
    /\ location # Null
    /\ location.accuracy = [num |-> 20]
    /\ error = NoDetailsMessage

\* C17: adding the Location that is already the first entry, as left there
\* by a previous add of it, changes nothing: add(x); add(x) gives the
\* history of add(x), with one entry for x, first.
C17_AddIdempotent ==
    [][ (AddedStep /\ Len(history) > 0 /\ history[1] = location') =>
            /\ history' = history
            /\ CountName(history', location'.name) = 1
      ]_vars

\* the same Location added twice in a row: an effect is pending although the
\* stored list already equals the history
C17_Witness ==
    /\ effectPending
    /\ location # Null
    /\ Len(history) = 2
    /\ history[1] = location
    /\ storage = Stringify(history)

----------------------------------------------------------------------------
(* The locating state *)

\* C18: loading changes only in a click on Get My Location, in a callback of
\* getCurrentPosition or with a page load, never in a place selection, a
\* history selection or a clear; and, the collaborators answering, every
\* state with loading true is followed by one with loading false.
C18_LocatingEntersAndLeaves ==
    /\ [][ /\ (~loading /\ loading') => getCurrentLocation
           /\ (loading /\ ~loading') =>
                 \/ AddressSettles
                 \/ \E i \in 1..MaxRequests, message \in GeoErrors : PositionError(i, message)
                 \/ Reload
         ]_vars
    /\ loading ~> ~loading

\* the locating state was entered and left on the success path
C18_Witness ==
    /\ ~loading
    /\ requests = << >>
    /\ location # Null
    /\ location.accuracy = [num |-> 20]
    /\ location.name = DelhiAddress
    /\ history[1] = location
    /\ error = ""

\* a user event that is not a locate request
OtherUserEvent ==
    \/ \E place \in Places : PlaceChanged(place)
    \/ \E i \in 1..5 : selectFromHistory(i)
    \/ clearHistory
    \/ InputClick

\* C19: no user event cancels an outstanding device locate, its callback
\* can still run once no effect is pending, and the late callback is
\* applied whatever the current selection is by then: the device
\* result becomes the selection and the first history entry, a device
\* failure sets the selection to null.
C19_LateResultApplied ==
    [][ /\ OtherUserEvent => requests' = requests
        /\ PersistEffect => requests' = requests
        /\ (requests # << >> /\ ~effectPending) => ENABLED (DeviceAnswers \/ AddressSettles)
        /\ \A i \in 1..MaxRequests, resp \in Responses :
              AddressResolved(i, resp) =>
                  /\ location' # Null
                  /\ location'.lat = requests[i].coords.latitude
                  /\ location'.lng = requests[i].coords.longitude
                  /\ location'.accuracy = [num |-> requests[i].coords.accuracy]
                  /\ Len(history') > 0
                  /\ history'[1] = location'
                  /\ Tail(history') = SubSeq(Without(history, location'.name), 1,
                                             Len(history') - 1)
        /\ \A i \in 1..MaxRequests, message \in GeoErrors :
              PositionError(i, message) => location' = Null
      ]_vars

\* a place was selected after the locate was requested and the request is
\* still outstanding, its success callback awaiting the address
C19_Witness ==
    /\ loading
    /\ Len(requests) = 1
    /\ requests[1].phase = "address"
    /\ effectPending
    /\ location # Null
    /\ location.accuracy = FromSearch
    /\ Len(history) > 0
    /\ history[1] = location
    /\ ENABLED PersistEffect

----------------------------------------------------------------------------
(* Memory and storage *)

====
